---- MODULE Spec2Model ----
(***************************************************************************)
(* Yamazumi simulator: the load / aggregate / render pipeline of           *)
(* yamazumi_simulator.py and of its variant run_yamazumi_example.py.       *)
(*                                                                         *)
(* Text (column headers, unit hints, categories) is a sequence of          *)
(* one-character strings, so that lower(), upper(), strip(), startswith()  *)
(* and the "in" substring test are computed as Python computes them.       *)
(* Durations are floats with integral values; a mean or a ratio is the     *)
(* exact fraction <<numerator, denominator>>.                              *)
(***************************************************************************)
EXTENDS Integers, Sequences, FiniteSets, TLC

\* ------------------------------------------------------------------ bounds
\* Longest record list of the aggregation inputs.
MaxRecs == 3
\* Longest record list of the inputs that vary headers and unit hints.
MaxLoadRecs == 1

\* ------------------------------------------------------------ text helpers
LowerChars == <<"a","b","c","d","e","f","g","h","i","j","k","l","m",
                "n","o","p","q","r","s","t","u","v","w","x","y","z">>
UpperChars == <<"A","B","C","D","E","F","G","H","I","J","K","L","M",
                "N","O","P","Q","R","S","T","U","V","W","X","Y","Z">>

\* str.lower() on one character
LowerChar(c) ==
    IF \E i \in 1..Len(UpperChars) : UpperChars[i] = c
    THEN LowerChars[CHOOSE i \in 1..Len(UpperChars) : UpperChars[i] = c]
    ELSE c

\* str.upper() on one character
UpperChar(c) ==
    IF \E i \in 1..Len(LowerChars) : LowerChars[i] = c
    THEN UpperChars[CHOOSE i \in 1..Len(LowerChars) : LowerChars[i] = c]
    ELSE c

\* str.lower()
Lower(s) == [i \in 1..Len(s) |-> LowerChar(s[i])]

\* str.upper()
Upper(s) == [i \in 1..Len(s) |-> UpperChar(s[i])]

\* str.strip(): drops leading and trailing whitespace
Strip(s) ==
    LET nonblank == {i \in 1..Len(s) : s[i] # " "}
    IN  IF nonblank = {} THEN <<>>
        ELSE LET lo == CHOOSE i \in nonblank : \A j \in nonblank : i <= j
                 hi == CHOOSE i \in nonblank : \A j \in nonblank : j <= i
             IN  SubSeq(s, lo, hi)

\* str.startswith(prefix)
StartsWith(s, prefix) ==
    /\ Len(prefix) <= Len(s)
    /\ SubSeq(s, 1, Len(prefix)) = prefix

\* the Python test  sub in s
Contains(s, sub) ==
    \E i \in 1..(Len(s) - Len(sub) + 1) : SubSeq(s, i, i + Len(sub) - 1) = sub

\* ---------------------------------------------------------- text literals
S_estacao   == <<"e","s","t","a","c","a","o">>
S_tempo     == <<"t","e","m","p","o">>
S_categoria == <<"c","a","t","e","g","o","r","i","a">>
S_min       == <<"m","i","n">>
S_seg       == <<"s","e","g">>
S_parmin    == <<"(","m","i","n">>
S_VA        == <<"V","A">>
S_NVA       == <<"N","V","A">>
S_MUDA      == <<"M","U","D","A">>

\* --------------------------------------------------------- input domains
\* A blank station cell is read as NaN.
NaNStation == 0
\* A duration cell holding text instead of a number.
TextCell == -1

H_Estacao    == <<"E","s","t","a","c","a","o">>
H_Tempo      == <<"T","e","m","p","o">>
H_Categoria  == <<"C","a","t","e","g","o","r","i","a">>
H_TempoMin   == <<"T","e","m","p","o"," ","(","m","i","n",")">>
H_tempoPad   == <<" ","t","e","m","p","o"," ">>
H_TEMPO      == <<"T","E","M","P","O">>
H_ESTACAO    == <<"E","S","T","A","C","A","O">>
H_Obs        == <<"O","b","s">>
H_Station    == <<"S","t","a","t","i","o","n">>
H_Time       == <<"T","i","m","e">>
H_Category   == <<"C","a","t","e","g","o","r","y">>

\* A sheet layout: the columns in order, each with its header and the row
\* field its cells hold ("alt" is a second numeric column).
Col(h, f) == [header |-> h, field |-> f]

StdLayout == <<Col(H_Estacao, "est"), Col(H_Tempo, "tempo"), Col(H_Categoria, "cat")>>

Layouts ==
    { StdLayout,
      <<Col(H_Estacao, "est"), Col(H_TempoMin, "tempo"), Col(H_Categoria, "cat")>>,
      <<Col(H_Estacao, "est"), Col(H_Tempo, "tempo")>>,
      <<Col(H_Station, "est"), Col(H_Time, "tempo"), Col(H_Category, "cat")>>,
      <<Col(H_Tempo, "tempo"), Col(H_Categoria, "cat"), Col(H_Obs, "alt")>>,
      <<Col(H_ESTACAO, "est"), Col(H_Categoria, "cat"), Col(H_Obs, "tempo")>>,
      <<Col(H_ESTACAO, "est"), Col(H_tempoPad, "tempo"), Col(H_Categoria, "cat"), Col(H_Tempo, "alt")>>,
      <<Col(H_Categoria, "cat"), Col(H_TempoMin, "alt"), Col(H_TEMPO, "tempo"), Col(H_Estacao, "est")>> }

\* The unit hint: None, or a text.
NoHint == [given |-> FALSE, text |-> <<>>]
Hint(t) == [given |-> TRUE, text |-> t]

Hints ==
    { NoHint,
      Hint(<<>>),
      Hint(<<"m","i","n","u","t","o","s">>),
      Hint(<<"M","i","n">>),
      Hint(<<"s","e","g","u","n","d","o","s">>),
      Hint(<<"S","E","G">>),
      Hint(<<"s","e","c","o","n","d","s">>),
      Hint(<<"h">>) }

Row(e, t, c) == [est |-> e, tempo |-> t, cat |-> c, alt |-> t + 7]

\* Rows of the aggregation inputs.
CellPool ==
    { <<60, <<"V","A">>>>, <<20, <<"n","v","a">>>>, <<10, <<"M","U","D","A">>>>,
      <<0, <<"V","A">>>>, <<30, <<"O","u","t","r","o">>>> }

RowPool ==
    { Row(1, c[1], c[2]) : c \in CellPool }
        \cup { Row(2, 60, <<"V","A">>), Row(2, 20, <<"n","v","a">>) }
        \cup { Row(NaNStation, 60, <<"V","A">>) }

\* Rows of the inputs that vary headers and hints.
LoadRowPool ==
    { Row(1, 2, <<"V","A">>), Row(2, 120, <<"n","v","a">>), Row(1, TextCell, <<"V","A">>) }

RECURSIVE SeqsUpTo(_, _)
SeqsUpTo(S, n) ==
    IF n = 0 THEN { <<>> }
    ELSE LET shorter == SeqsUpTo(S, n - 1)
         IN  shorter \cup { Append(s, x) : s \in {t \in shorter : Len(t) = n - 1}, x \in S }

Variants == {"simulator", "example"}

MissingFile == [exists |-> FALSE, layout |-> <<>>, rows |-> <<>>]
Sheet(l, rs) == [exists |-> TRUE, layout |-> l, rows |-> rs]

\* The (file, unit hint) pairs the runs start from.
Inputs ==
    { <<Sheet(l, rs), h>> : l \in Layouts, rs \in SeqsUpTo(LoadRowPool, MaxLoadRecs), h \in Hints }
        \cup { <<MissingFile, h>> : h \in {NoHint, Hint(<<"M","i","n">>)} }
        \cup { <<Sheet(StdLayout, rs), NoHint>> : rs \in SeqsUpTo(RowPool, MaxRecs) }

\* The takt_s argument of gerar_grafico_yamazumi: None or a number of seconds.
NoTakt == [given |-> FALSE, n |-> 0]
Takt(x) == [given |-> TRUE, n |-> x]
TaktArgs == { NoTakt, Takt(-60), Takt(0), Takt(100) }

\* ------------------------------------------------------------------ loader
\* c.lower().strip() of a header
NormHeader(c) == Strip(Lower(c))

\* cols_lower = {c.lower().strip() for c in df.columns}
cols_lower(layout) == { NormHeader(layout[i].header) : i \in 1..Len(layout) }

required_cols == { S_estacao, S_tempo, S_categoria }

\* FirstCol taking the last match, [-1]
FirstCol_last(layout, name) ==
    LET hits == { i \in 1..Len(layout) : NormHeader(layout[i].header) = name }
    IN  CHOOSE i \in hits : \A j \in hits : j <= i

\* [c for c in df.columns if c.lower().strip() == name][0]
FirstCol(layout, name) ==
    LET hits == { i \in 1..Len(layout) : NormHeader(layout[i].header) = name }
    IN  CHOOSE i \in hits : \A j \in hits : i <= j

\* df[col] for one row: the cell of the column at position i
CellOf(layout, i, row) ==
    CASE layout[i].field = "est"   -> row.est
      [] layout[i].field = "tempo" -> row.tempo
      [] layout[i].field = "alt"   -> row.alt
      [] OTHER                     -> row.cat

\* df[col_time].astype(float) raises on a text cell
CoerceFails(layout, i, rows) ==
    \E k \in 1..Len(rows) : layout[i].field = "cat" \/ CellOf(layout, i, rows[k]) = TextCell

\* if unidade: ... (an empty text is falsy, like None)
Truthy(unidade) == unidade.given /\ unidade.text # <<>>

\* Sim_unit testing the prefix "sec" in place of "seg"
Sim_unit_sec(unidade, col_time) ==
    IF Truthy(unidade)
    THEN IF StartsWith(Lower(unidade.text), S_min) THEN "x60"
         ELSE IF StartsWith(Lower(unidade.text), <<"s","e","c">>) THEN "x1"
         ELSE "raise"
    ELSE IF Contains(Lower(col_time), S_parmin) THEN "x60" ELSE "x1"

\* unit resolution of yamazumi_simulator.py: "x60", "x1" or "raise"
Sim_unit(unidade, col_time) ==
    IF Truthy(unidade)
    THEN IF StartsWith(Lower(unidade.text), S_min) THEN "x60"
         ELSE IF StartsWith(Lower(unidade.text), S_seg) THEN "x1"
         ELSE "raise"
    ELSE IF Contains(Lower(col_time), S_parmin) THEN "x60" ELSE "x1"

\* unit resolution of run_yamazumi_example.py: "x60" or "x1"
Ex_unit(unidade, col_time) ==
    IF Truthy(unidade)
    THEN IF StartsWith(Lower(unidade.text), S_min) THEN "x60" ELSE "x1"
    ELSE IF Contains(Lower(col_time), S_parmin) THEN "x60" ELSE "x1"

UnitOf(v, unidade, col_time) ==
    IF v = "simulator" THEN Sim_unit(unidade, col_time) ELSE Ex_unit(unidade, col_time)

\* tempos * 60.0, or tempos
tempos_s(unit, t) == IF unit = "x60" THEN t * 60 ELSE t

NoCols == [est |-> 0, time |-> 0, cat |-> 0]

Failure(e, c) == [ok |-> FALSE, err |-> e, cols |-> c, unit |-> "", df |-> <<>>]

\* ler_dados_yamazumi(arquivo, unidade): the returned frame, or the exception
ler_dados_yamazumi(v, arquivo, unidade) ==
    IF ~arquivo.exists THEN Failure("FileNotFoundError", NoCols)
    ELSE IF ~(required_cols \subseteq cols_lower(arquivo.layout))
    THEN Failure("ValueError: colunas", NoCols)
    ELSE
      LET lay  == arquivo.layout
          rows == arquivo.rows
          c    == [est  |-> FirstCol(lay, S_estacao),
                   time |-> FirstCol(lay, S_tempo),
                   cat  |-> FirstCol(lay, S_categoria)]
          unit == UnitOf(v, unidade, lay[c.time].header)
      IN  IF CoerceFails(lay, c.time, rows) THEN Failure("ValueError: float", c)
          ELSE IF unit = "raise" THEN Failure("ValueError: unidade", c)
          ELSE [ok |-> TRUE, err |-> "", cols |-> c, unit |-> unit,
                df |-> [k \in 1..Len(rows) |->
                          [Estacao   |-> CellOf(lay, c.est, rows[k]),
                           Tempo_s   |-> tempos_s(unit, CellOf(lay, c.time, rows[k])),
                           Categoria |-> Upper(CellOf(lay, c.cat, rows[k]))]]]

\* ------------------------------------------------------------ arithmetic
\* A fraction n/d with d > 0; floats of the pipeline that are not integral.
Frac(n, d) == <<n, d>>

FracSub(a, b) == <<a[1] * b[2] - b[1] * a[2], a[2] * b[2]>>

FracAbs(a) == <<IF a[1] < 0 THEN -a[1] ELSE a[1], a[2]>>

\* the integer that format(x, ".0f") prints: round half to even
RoundHalfEven(a) ==
    LET q == a[1] \div a[2]
        r == a[1] % a[2]
    IN  IF 2 * r < a[2] THEN q
        ELSE IF 2 * r > a[2] THEN q + 1
        ELSE IF q % 2 = 0 THEN q ELSE q + 1

\* format(x, ".kf") as the integer number of 10^-k units, scale = 10^k
Fmt(a, scale) == RoundHalfEven(<<a[1] * scale, a[2]>>)

RECURSIVE SumSeq(_)
SumSeq(s) == IF s = <<>> THEN 0 ELSE s[1] + SumSeq(Tail(s))

RECURSIVE SortedSeq(_)
\* the elements of a set of numbers in ascending order
SortedSeq(S) ==
    IF S = {} THEN <<>>
    ELSE LET m == CHOOSE x \in S : \A y \in S : x <= y
         IN  <<m>> \o SortedSeq(S \ {m})

SeqRange(s) == { s[i] : i \in 1..Len(s) }

\* code point order of the characters in use: punctuation, upper, lower
CharRank(c) ==
    IF \E i \in 1..26 : UpperChars[i] = c THEN 100 + (CHOOSE i \in 1..26 : UpperChars[i] = c)
    ELSE IF \E i \in 1..26 : LowerChars[i] = c THEN 200 + (CHOOSE i \in 1..26 : LowerChars[i] = c)
    ELSE 0

RECURSIVE StrLess(_, _)
\* Python's < on two texts
StrLess(a, b) ==
    IF b = <<>> THEN FALSE
    ELSE IF a = <<>> THEN TRUE
    ELSE IF a[1] # b[1] THEN CharRank(a[1]) < CharRank(b[1])
    ELSE StrLess(Tail(a), Tail(b))

RECURSIVE SortedStrs(_)
SortedStrs(S) ==
    IF S = {} THEN <<>>
    ELSE LET m == CHOOSE x \in S : \A y \in S \ {x} : StrLess(x, y)
         IN  <<m>> \o SortedStrs(S \ {m})

\* -------------------------------------------------------------- aggregation
\* the group keys of pivot_table / groupby: sorted, NaN keys dropped
GroupIndex(df) ==
    SortedSeq({ df[k].Estacao : k \in 1..Len(df) } \ {NaNStation})

\* sum of Tempo_s over the records of one station and one category
CellSum(df, est, cat) ==
    SumSeq([k \in 1..Len(df) |->
              IF df[k].Estacao = est /\ df[k].Categoria = cat THEN df[k].Tempo_s ELSE 0])

categorias_unicas == <<S_VA, S_NVA, S_MUDA>>

\* pivot_table(...).reindex(columns=categorias_unicas, fill_value=0.0)
Sim_pivot(df) ==
    LET idx == GroupIndex(df)
    IN  [index   |-> idx,
         columns |-> categorias_unicas,
         data    |-> [e \in SeqRange(idx) |->
                        [c \in SeqRange(categorias_unicas) |-> CellSum(df, e, c)]]]

\* groupby(["Estacao", "Categoria"])["Tempo_s"].sum().unstack(fill_value=0)
Ex_agrupado(df) ==
    LET idx  == GroupIndex(df)
        cats == SortedStrs({ df[k].Categoria : k \in { j \in 1..Len(df) : df[j].Estacao # NaNStation } })
    IN  [index   |-> idx,
         columns |-> cats,
         data    |-> [e \in SeqRange(idx) |->
                        [c \in SeqRange(cats) |-> CellSum(df, e, c)]]]

\* pivot.sum(axis=1)
total_por_estacao(pv) ==
    [e \in SeqRange(pv.index) |->
        SumSeq([i \in 1..Len(pv.columns) |-> pv.data[e][pv.columns[i]]])]

\* a resolved takt: a number n/d, NaN, or None
TaktNum(n, d) == [kind |-> "num", n |-> n, d |-> d]
TaktNaN  == [kind |-> "nan", n |-> 0, d |-> 1]
TaktNone == [kind |-> "none", n |-> 0, d |-> 1]

\* Mean guarding the empty series with 0
Mean_zero(idx, tot) ==
    IF idx = <<>> THEN TaktNum(0, 1)
    ELSE TaktNum(SumSeq([i \in 1..Len(idx) |-> tot[idx[i]]]), Len(idx))

\* Series.mean(): NaN on an empty series
Mean(idx, tot) ==
    IF idx = <<>> THEN TaktNaN
    ELSE TaktNum(SumSeq([i \in 1..Len(idx) |-> tot[idx[i]]]), Len(idx))

\* Sim_takt testing "if not takt_s", which also replaces a takt of 0
Sim_takt_falsy(arg, idx, tot) ==
    IF arg.given /\ arg.n # 0 THEN TaktNum(arg.n, 1) ELSE Mean(idx, tot)

\* if takt_s is None: takt_s = total_por_estacao.mean()
Sim_takt(arg, idx, tot) ==
    IF arg.given THEN TaktNum(arg.n, 1) ELSE Mean(idx, tot)

\* run_yamazumi_example.py keeps the argument and tests "if takt_s"
Ex_takt(arg) ==
    IF arg.given THEN TaktNum(arg.n, 1) ELSE TaktNone

\* "if takt_s": None and 0 are falsy
TaktTruthy(t) == t.kind = "num" /\ t.n # 0

\* idxmax returning the last label that holds the maximum
idxmax_last(idx, tot) ==
    LET best == CHOOSE i \in 1..Len(idx) :
                   /\ \A j \in 1..Len(idx) : tot[idx[j]] <= tot[idx[i]]
                   /\ \A j \in (i + 1)..Len(idx) : tot[idx[j]] < tot[idx[i]]
    IN  idx[best]

\* Series.idxmax(): the first label, in index order, that holds the maximum
idxmax(idx, tot) ==
    LET best == CHOOSE i \in 1..Len(idx) :
                   /\ \A j \in 1..Len(idx) : tot[idx[j]] <= tot[idx[i]]
                   /\ \A j \in 1..(i - 1) : tot[idx[j]] < tot[idx[i]]
    IN  idx[best]

\* va / total_por_estacao.replace(0, 1)
Sim_va_ratio(pv, tot) ==
    [e \in SeqRange(pv.index) |-> Frac(pv.data[e][S_VA], IF tot[e] = 0 THEN 1 ELSE tot[e])]

\* Sim_line testing diff >= 0
Sim_line_ge(est, tot, takt, ratio) ==
    LET diff == FracSub(Frac(tot, 1), Frac(takt.n, takt.d))
    IN  [est    |-> est,
         total  |-> Fmt(Frac(tot, 1), 1),
         diff   |-> Fmt(FracAbs(diff), 1),
         status |-> IF diff[1] >= 0 THEN "acima" ELSE "abaixo",
         ratio  |-> Fmt(Frac(ratio[1] * 100, ratio[2]), 10)]

\* one line of the summary of yamazumi_simulator.py
Sim_line(est, tot, takt, ratio) ==
    LET diff == FracSub(Frac(tot, 1), Frac(takt.n, takt.d))
    IN  [est    |-> est,
         total  |-> Fmt(Frac(tot, 1), 1),
         diff   |-> Fmt(FracAbs(diff), 1),
         status |-> IF diff[1] > 0 THEN "acima" ELSE "abaixo",
         ratio  |-> Fmt(Frac(ratio[1] * 100, ratio[2]), 10)]

\* the first print of yamazumi_simulator.py
Sim_head(takt) ==
    [given |-> TRUE, takt_min |-> Fmt(Frac(takt.n, takt.d * 60), 100),
     takt_s |-> Fmt(Frac(takt.n, takt.d), 1)]

\* the per-station prints of yamazumi_simulator.py
Sim_resumo(pv, tot, takt) ==
    LET ratio == Sim_va_ratio(pv, tot)
    IN  [i \in 1..Len(pv.index) |->
            Sim_line(pv.index[i], tot[pv.index[i]], takt, ratio[pv.index[i]])]

\* agrupado.get("VA", 0): the column, or the integer 0
HasVA(pv) == S_VA \in SeqRange(pv.columns)

\* one line of the summary of run_yamazumi_example.py
Ex_line(est, tot, takt, va) ==
    [est    |-> est,
     total  |-> Fmt(Frac(tot, 1), 1),
     delta  |-> IF TaktTruthy(takt) THEN Fmt(FracSub(Frac(tot, 1), Frac(takt.n, takt.d)), 1) ELSE 0,
     status |-> IF TaktTruthy(takt) THEN "delta" ELSE "n/a",
     ratio  |-> IF tot # 0 THEN Fmt(Frac(100 * va, tot), 10) ELSE Fmt(Frac(0, 1), 10)]

\* the first print of run_yamazumi_example.py
Ex_head(takt) ==
    IF TaktTruthy(takt)
    THEN [given |-> TRUE, takt_min |-> Fmt(Frac(takt.n, takt.d * 60), 100),
          takt_s |-> Fmt(Frac(takt.n, takt.d), 1)]
    ELSE [given |-> FALSE, takt_min |-> 0, takt_s |-> 0]

\* the per-station prints of run_yamazumi_example.py
Ex_resumo(pv, tot, takt) ==
    [i \in 1..Len(pv.index) |->
        Ex_line(pv.index[i], tot[pv.index[i]], takt, pv.data[pv.index[i]][S_VA])]

\* ------------------------------------------------------------ the pipeline
VARIABLES
    variant,     \* which script runs
    arquivo,     \* the input file
    unidade,     \* the unit hint
    pc,          \* position of the run
    err,         \* the exception that ended the run
    cols,        \* col_est, col_time, col_cat as column positions
    df,          \* the frame ler_dados_yamazumi returned
    takt_arg,    \* the takt_s argument
    pivot,       \* pivot / agrupado
    total,       \* total_por_estacao
    takt_s,      \* the takt in use
    max_est,     \* the bottleneck station
    dir_made,    \* the parent directory was created
    image,       \* the image file was written
    cabecalho,   \* the printed takt line
    resumo       \* the printed station lines

vars == <<variant, arquivo, unidade, pc, err, cols, df, takt_arg, pivot, total,
          takt_s, max_est, dir_made, image, cabecalho, resumo>>

EmptyPivot == [index |-> <<>>, columns |-> <<>>, data |-> <<>>]

Init ==
    /\ variant \in Variants
    /\ \E i \in Inputs : arquivo = i[1] /\ unidade = i[2]
    /\ pc = "start"
    /\ err = ""
    /\ cols = NoCols
    /\ df = <<>>
    /\ takt_arg = NoTakt
    /\ pivot = EmptyPivot
    /\ total = <<>>
    /\ takt_s = TaktNone
    /\ max_est = NaNStation
    /\ dir_made = FALSE
    /\ image = FALSE
    /\ cabecalho = <<>>
    /\ resumo = <<>>

\* df = ler_dados_yamazumi(args.entrada, unidade=args.unidade)
Load ==
    /\ pc = "start"
    /\ LET r == ler_dados_yamazumi(variant, arquivo, unidade)
       IN  /\ pc' = IF r.ok THEN "loaded" ELSE "error"
           /\ err' = r.err
           /\ cols' = r.cols
           /\ df' = r.df
    /\ UNCHANGED <<variant, arquivo, unidade, takt_arg, pivot, total, takt_s,
                   max_est, dir_made, image, cabecalho, resumo>>

\* yamazumi_simulator.py: pivot, totals and takt
Sim_Aggregate ==
    /\ pc = "loaded"
    /\ variant = "simulator"
    /\ \E t \in TaktArgs :
         LET pv  == Sim_pivot(df)
             tot == total_por_estacao(pv)
         IN  /\ takt_arg' = t
             /\ pivot' = pv
             /\ total' = tot
             /\ takt_s' = Sim_takt(t, pv.index, tot)
    /\ pc' = "plot"
    /\ UNCHANGED <<variant, arquivo, unidade, err, cols, df, max_est, dir_made,
                   image, cabecalho, resumo>>

\* Sim_Plot with savefig moved before the bottleneck annotation
Sim_Plot_saved_first ==
    /\ pc = "plot"
    /\ variant = "simulator"
    /\ image' = TRUE
    /\ IF pivot.index = <<>>
       THEN /\ pc' = "error"
            /\ err' = "ValueError: argmax"
            /\ UNCHANGED max_est
       ELSE /\ pc' = "save"
            /\ max_est' = idxmax(pivot.index, total)
            /\ UNCHANGED err
    /\ UNCHANGED <<variant, arquivo, unidade, cols, df, takt_arg, pivot, total,
                   takt_s, dir_made, cabecalho, resumo>>

\* yamazumi_simulator.py: bars, takt line and bottleneck annotation
Sim_Plot ==
    /\ pc = "plot"
    /\ variant = "simulator"
    /\ IF pivot.index = <<>>
       THEN /\ pc' = "error"
            /\ err' = "ValueError: argmax"
            /\ UNCHANGED max_est
       ELSE /\ pc' = "save"
            /\ max_est' = idxmax(pivot.index, total)
            /\ UNCHANGED err
    /\ UNCHANGED <<variant, arquivo, unidade, cols, df, takt_arg, pivot, total,
                   takt_s, dir_made, image, cabecalho, resumo>>

\* yamazumi_simulator.py: mkdir and savefig
Sim_SaveFig ==
    /\ pc = "save"
    /\ variant = "simulator"
    /\ dir_made' = TRUE
    /\ image' = TRUE
    /\ pc' = "summary"
    /\ UNCHANGED <<variant, arquivo, unidade, err, cols, df, takt_arg, pivot,
                   total, takt_s, max_est, cabecalho, resumo>>

\* yamazumi_simulator.py: the printed summary
Sim_Summary ==
    /\ pc = "summary"
    /\ variant = "simulator"
    /\ cabecalho' = <<Sim_head(takt_s)>>
    /\ resumo' = Sim_resumo(pivot, total, takt_s)
    /\ pc' = "done"
    /\ UNCHANGED <<variant, arquivo, unidade, err, cols, df, takt_arg, pivot,
                   total, takt_s, max_est, dir_made, image>>

\* run_yamazumi_example.py: grouping and totals
Ex_Aggregate ==
    /\ pc = "loaded"
    /\ variant = "example"
    /\ \E t \in TaktArgs :
         LET pv == Ex_agrupado(df)
         IN  /\ takt_arg' = t
             /\ pivot' = pv
             /\ total' = total_por_estacao(pv)
             /\ takt_s' = Ex_takt(t)
    /\ pc' = "plot"
    /\ UNCHANGED <<variant, arquivo, unidade, err, cols, df, max_est, dir_made,
                   image, cabecalho, resumo>>

\* run_yamazumi_example.py: bars, takt line and bottleneck annotation
Ex_Plot ==
    /\ pc = "plot"
    /\ variant = "example"
    /\ IF pivot.index = <<>>
       THEN /\ pc' = "error"
            /\ err' = "TypeError: no numeric data to plot"
            /\ UNCHANGED max_est
       ELSE /\ pc' = "save"
            /\ max_est' = idxmax(pivot.index, total)
            /\ UNCHANGED err
    /\ UNCHANGED <<variant, arquivo, unidade, cols, df, takt_arg, pivot, total,
                   takt_s, dir_made, image, cabecalho, resumo>>

\* run_yamazumi_example.py: savefig
Ex_SaveFig ==
    /\ pc = "save"
    /\ variant = "example"
    /\ image' = TRUE
    /\ pc' = "summary"
    /\ UNCHANGED <<variant, arquivo, unidade, err, cols, df, takt_arg, pivot,
                   total, takt_s, max_est, dir_made, cabecalho, resumo>>

\* run_yamazumi_example.py: the printed summary; va_por_estacao is the
\* integer 0 when no category is "VA", and 0 has no get()
Ex_Summary ==
    /\ pc = "summary"
    /\ variant = "example"
    /\ cabecalho' = <<Ex_head(takt_s)>>
    /\ IF HasVA(pivot)
       THEN /\ resumo' = Ex_resumo(pivot, total, takt_s)
            /\ pc' = "done"
            /\ UNCHANGED err
       ELSE /\ pc' = "error"
            /\ err' = "AttributeError"
            /\ UNCHANGED resumo
    /\ UNCHANGED <<variant, arquivo, unidade, cols, df, takt_arg, pivot, total,
                   takt_s, max_est, dir_made, image>>

Next ==
    \/ Load
    \/ Sim_Aggregate
    \/ Sim_Plot
    \/ Sim_SaveFig
    \/ Sim_Summary
    \/ Ex_Aggregate
    \/ Ex_Plot
    \/ Ex_SaveFig
    \/ Ex_Summary

Spec == Init /\ [][Next]_vars

TypeOK ==
    /\ pc \in {"start", "loaded", "plot", "save", "summary", "done", "error"}
    /\ image \in BOOLEAN

\* ------------------------------------------------------------------ claims
Aggregated == pc \in {"plot", "save", "summary", "done"}

\* the load reached its unit resolution: file, columns and numbers were fine
ReachedUnit ==
    /\ pc # "start"
    /\ arquivo.exists
    /\ err \notin {"FileNotFoundError", "ValueError: colunas", "ValueError: float"}

LoadErrors ==
    {"FileNotFoundError", "ValueError: colunas", "ValueError: float", "ValueError: unidade"}

\* the load returned a frame
LoadOk == pc # "start" /\ err \notin LoadErrors

\* sum of duration_seconds over all normalized records
DurationSum == SumSeq([k \in 1..Len(df) |-> df[k].Tempo_s])

\* sum of the per-station totals
TotalSum == SumSeq([i \in 1..Len(pivot.index) |-> total[pivot.index[i]]])

\* C1: in yamazumi_simulator.py the per-station totals add up to the sum of
\* the durations of all normalized records, whatever their categories.
C1_TotalsEqualDurations ==
    (/\ variant = "simulator"
     /\ Aggregated
     /\ \A k \in 1..Len(df) : df[k].Estacao # NaNStation) => TotalSum = DurationSum

\* the positions of the sheet's duration column whose header carries "(min"
MinMarked == { i \in 1..Len(arquivo.layout) :
                 /\ arquivo.layout[i].field = "tempo"
                 /\ Contains(Lower(arquivo.layout[i].header), S_parmin) }

NoTextCell == \A k \in 1..Len(arquivo.rows) : arquivo.rows[k].tempo # TextCell

\* C2: without a unit hint, a sheet whose time column header contains
\* "(min" loads and every duration comes back multiplied by 60; a sheet
\* whose time header has no such marker loads with durations unchanged.
C2_HeaderUnitInference ==
    (pc # "start" /\ arquivo.exists /\ ~unidade.given /\ NoTextCell) =>
        /\ MinMarked # {} =>
              /\ LoadOk
              /\ Len(df) = Len(arquivo.rows)
              /\ \A k \in 1..Len(df) : df[k].Tempo_s = 60 * arquivo.rows[k].tempo
        /\ (MinMarked = {} /\ LoadOk) =>
              \A k \in 1..Len(df) :
                  df[k].Tempo_s = CellOf(arquivo.layout, cols.time, arquivo.rows[k])

HintMin == StartsWith(Lower(unidade.text), S_min)
HintSeg == StartsWith(Lower(unidade.text), S_seg)
HintSec == StartsWith(Lower(unidade.text), <<"s","e","c">>)

Times60 ==
    /\ LoadOk
    /\ Len(df) = Len(arquivo.rows)
    /\ \A k \in 1..Len(df) :
          df[k].Tempo_s = 60 * CellOf(arquivo.layout, cols.time, arquivo.rows[k])

TimesOne ==
    /\ LoadOk
    /\ Len(df) = Len(arquivo.rows)
    /\ \A k \in 1..Len(df) :
          df[k].Tempo_s = CellOf(arquivo.layout, cols.time, arquivo.rows[k])

UnitRejected == pc = "error" /\ err = "ValueError: unidade" /\ df = <<>>

\* C3 as stated: a provided hint decides alone; "min..." multiplies by 60,
\* "sec..." leaves the durations, any other hint value is rejected.
C3_Original ==
    (ReachedUnit /\ unidade.given /\ unidade.text # <<>>) =>
        /\ HintMin => Times60
        /\ (~HintMin /\ HintSec) => TimesOne
        /\ (~HintMin /\ ~HintSec) => UnitRejected

\* C3 amended: a non-empty hint decides alone; "min..." multiplies by 60,
\* "seg..." leaves the durations; any other non-empty hint is rejected by
\* yamazumi_simulator.py and leaves the durations in run_yamazumi_example.py;
\* an empty hint counts as no hint.
C3_HintDecides ==
    (ReachedUnit /\ unidade.given) =>
        /\ (unidade.text # <<>> /\ HintMin) => Times60
        /\ (unidade.text # <<>> /\ ~HintMin /\ HintSeg) => TimesOne
        /\ (unidade.text # <<>> /\ ~HintMin /\ ~HintSeg) =>
              IF variant = "simulator" THEN UnitRejected ELSE TimesOne
        /\ unidade.text = <<>> => TimesOne

C3_Witness ==
    /\ variant = "simulator"
    /\ unidade = Hint(<<"s","e","c","o","n","d","s">>)
    /\ arquivo.exists /\ Len(arquivo.rows) = 1
    /\ UnitRejected

\* the columns whose trimmed, lower-cased header is the logical name
Matching(name) ==
    { i \in 1..Len(arquivo.layout) : Strip(Lower(arquivo.layout[i].header)) = name }

SomeMissing == \E name \in {S_estacao, S_tempo, S_categoria} : Matching(name) = {}

IsFirst(i, S) == i \in S /\ \A j \in S : i <= j

TaktIs(n, d) == takt_s.kind = "num" /\ takt_s.n * d = n * takt_s.d

\* C5 as stated: a supplied takt is used as it is, an omitted one is the
\* mean of the station totals.
C5_Original ==
    (Aggregated /\ pivot.index # <<>>) =>
        IF takt_arg.given THEN TaktIs(takt_arg.n, 1) /\ (pc = "done" => cabecalho[1].given)
        ELSE TaktIs(TotalSum, Len(pivot.index))

\* C5 amended: yamazumi_simulator.py uses a supplied takt as it is (0 and
\* negative included) and the mean of the station totals when it is omitted;
\* run_yamazumi_example.py uses a supplied non-zero takt as it is and has no
\* takt (no line, no takt in the summary, no mean) when it is omitted or 0.
C5_TaktResolution ==
    (Aggregated /\ pivot.index # <<>>) =>
        IF variant = "simulator"
        THEN /\ IF takt_arg.given THEN TaktIs(takt_arg.n, 1)
                ELSE TaktIs(TotalSum, Len(pivot.index))
             /\ pc = "done" =>
                   /\ cabecalho[1].given
                   /\ 2 * (cabecalho[1].takt_s * takt_s.d - takt_s.n) \in (-takt_s.d)..takt_s.d
        ELSE /\ takt_arg.given => TaktIs(takt_arg.n, 1)
             /\ ~takt_arg.given => takt_s.kind = "none"
             /\ pc = "done" => (cabecalho[1].given <=> (takt_arg.given /\ takt_arg.n # 0))

C5_Witness ==
    /\ variant = "simulator"
    /\ pc = "done"
    /\ ~takt_arg.given
    /\ Len(pivot.index) = 2
    /\ total[1] = 60 /\ total[2] = 20
    /\ TaktIs(40, 1)

RECURSIVE FirstSeen(_, _)
\* the distinct stations of the records in first-seen order
FirstSeen(recs, seen) ==
    IF recs = <<>> THEN <<>>
    ELSE IF recs[1].Estacao \in seen \cup {NaNStation} THEN FirstSeen(Tail(recs), seen)
    ELSE <<recs[1].Estacao>> \o FirstSeen(Tail(recs), seen \cup {recs[1].Estacao})

Maximal(e) == \A f \in DOMAIN total : total[f] <= total[e]

\* the first station of the order that holds the maximal total
FirstMaximal(order) ==
    order[CHOOSE i \in 1..Len(order) :
            Maximal(order[i]) /\ \A j \in 1..(i - 1) : ~Maximal(order[j])]

Bottlenecked == variant = "simulator" /\ pc \in {"save", "summary", "done"}

\* C6 as stated: the bottleneck has a maximal total and, among equals, is
\* the first in the first-seen order of the stations in the records.
C6_Original ==
    Bottlenecked =>
        /\ Maximal(max_est)
        /\ pivot.index = FirstSeen(df, {})
        /\ max_est = FirstMaximal(FirstSeen(df, {}))

\* C6 amended: the bottleneck has a maximal total and, among equals, is the
\* first in the aggregation order, which is the ascending order of the
\* distinct station values.
C6_Bottleneck ==
    Bottlenecked =>
        /\ max_est \in DOMAIN total
        /\ Maximal(max_est)
        /\ SeqRange(pivot.index) = SeqRange(FirstSeen(df, {}))
        /\ \A i \in 1..(Len(pivot.index) - 1) : pivot.index[i] < pivot.index[i + 1]
        /\ max_est = FirstMaximal(pivot.index)

C6_Witness ==
    /\ Bottlenecked
    /\ FirstSeen(df, {}) = <<2, 1>>
    /\ total[1] = total[2]
    /\ total[1] > 0
    /\ max_est = 1

\* x is an integer nearest to n/d
Nearest(x, n, d) == 2 * (x * d - n) \in (-d)..d

\* the "VA" total of a station, 0 when no record of it is "VA"
VAOf(e) == IF HasVA(pivot) THEN pivot.data[e][S_VA] ELSE 0

\* C7: every station of the result has a va_ratio, which is its "VA" total
\* over its total, lies in [0, 1], and is 0 when its total is 0.
C7_VaRatio ==
    (image /\ pc \in {"done", "error"}) =>
        /\ Len(resumo) = Len(pivot.index)
        /\ \A i \in 1..Len(resumo) :
              LET e == pivot.index[i]
              IN  /\ total[e] = 0 => resumo[i].ratio = 0
                  /\ total[e] # 0 => Nearest(resumo[i].ratio, 1000 * VAOf(e), total[e])
                  /\ resumo[i].ratio \in 0..1000

\* C8: the summary of yamazumi_simulator.py has one line per station in
\* aggregation order, with the station total, |total - takt| and "acima"
\* exactly when total > takt; VA=60, NVA=20, MUDA=10 against a takt of 100
\* prints total 90, deviation 10, "abaixo", VA% 66.7.
C8_SummaryLines ==
    (variant = "simulator" /\ pc = "done") =>
        /\ Len(resumo) = Len(pivot.index)
        /\ \A i \in 1..Len(resumo) :
              LET e    == pivot.index[i]
                  over == total[e] * takt_s.d - takt_s.n
              IN  /\ resumo[i].est = e
                  /\ resumo[i].total = total[e]
                  /\ resumo[i].diff >= 0
                  /\ Nearest(resumo[i].diff, IF over < 0 THEN -over ELSE over, takt_s.d)
                  /\ resumo[i].status \in {"acima", "abaixo"}
                  /\ resumo[i].status = "acima" <=> over > 0
                  /\ (/\ pivot.data[e][S_VA] = 60 /\ pivot.data[e][S_NVA] = 20
                      /\ pivot.data[e][S_MUDA] = 10 /\ TaktIs(100, 1)) =>
                        resumo[i] = [est |-> e, total |-> 90, diff |-> 10,
                                     status |-> "abaixo", ratio |-> 667]

C8_Witness ==
    /\ variant = "simulator"
    /\ pc = "done"
    /\ takt_arg = Takt(100)
    /\ pivot.index = <<1>>
    /\ pivot.data[1][S_VA] = 60 /\ pivot.data[1][S_NVA] = 20 /\ pivot.data[1][S_MUDA] = 10
    /\ resumo = <<[est |-> 1, total |-> 90, diff |-> 10, status |-> "abaixo", ratio |-> 667]>>

\* C9: a run of yamazumi_simulator.py that ends in an error has written no
\* image and printed nothing, a run that completes has written the image
\* and printed the whole summary, and a load failure precedes every write.
C9_NoPartialOutput ==
    variant = "simulator" =>
        /\ pc = "error" => (~image /\ cabecalho = <<>> /\ resumo = <<>>)
        /\ (pc = "error" /\ err \in LoadErrors) => ~dir_made
        /\ pc = "done" => (image /\ Len(cabecalho) = 1 /\ Len(resumo) = Len(pivot.index))
        /\ image => pc \in {"summary", "done"}

C9_Witness ==
    /\ variant = "simulator"
    /\ pc = "error"
    /\ err = "ValueError: argmax"
    /\ Len(df) > 0
    /\ ~image

\* C10 as stated: with the takt omitted and no station, the takt resolution
\* fails, so the run never gets past it.
C10_Original ==
    (variant = "simulator" /\ Aggregated /\ ~takt_arg.given) => pivot.index # <<>>

\* C10 amended: with no station, the takt resolution of yamazumi_simulator.py
\* does not fail (an omitted takt resolves to NaN) and the run aborts at the
\* bottleneck selection, whether or not a takt was supplied, with no image
\* and no summary.
C10_EmptyAborts ==
    (variant = "simulator" /\ pivot.index = <<>> /\ (Aggregated \/ err \notin LoadErrors \cup {""})) =>
        /\ ~takt_arg.given => takt_s = TaktNaN
        /\ takt_arg.given => TaktIs(takt_arg.n, 1)
        /\ pc \in {"plot", "error"}
        /\ pc = "error" => err = "ValueError: argmax"
        /\ ~image /\ cabecalho = <<>> /\ resumo = <<>>

C10_Witness ==
    /\ variant = "simulator"
    /\ pc = "error"
    /\ err = "ValueError: argmax"
    /\ ~takt_arg.given
    /\ takt_s = TaktNaN
    /\ ~image

====
